---- MODULE Spec2Model ----
(***************************************************************************)
(* Model of ftd-bin/src/main.rs: the USB interface lifecycle (open, claim, *)
(* Drop), the handshake control transfer and the interrupt polling loop.   *)
(* The USB transport (rusb / the kernel) is the environment: every call    *)
(* into it is one step whose result is chosen from the results the call    *)
(* can return.                                                             *)
(***************************************************************************)
EXTENDS Integers, Sequences, FiniteSets, TLC

\* ---------------------------------------------------------------- constants
VENDOR_ID == 2290
PRODUCT_ID == 26641

MASS_STORAGE == 0
BUTTONS_INTERAFCE == 1
TABLET_INTERFACE == 2

\* read_device(.., 8, 10): buffer size and timeout (ms) of every read
ReadSize == 8
ReadTimeout == 10

\* ------------------------------------------------------------------- bounds
\* at most MaxEp input endpoints on a polled interface
MaxEp == 2
\* at most MaxDevices devices on the bus
MaxDevices == 2

\* a vendor / product id that is not the tablet's
OtherId == VENDOR_ID + PRODUCT_ID

\* the interface numbers a device of the model may declare
Ifaces == 0..3

\* ------------------------------------------------------------- descriptors
\* An endpoint is its address; bit 7 of the address is the direction.
Direction(addr) == IF (addr \div 128) % 2 = 1 THEN "In" ELSE "Out"

IsIn(addr) == Direction(addr) = "In"
IsOut(addr) == Direction(addr) = "Out"

InAddr(i, k) == 128 + 4 * i + k
OutAddr(i) == 4 * i + 1

InEps(i, n) == [k \in 1..n |-> InAddr(i, k)]

\* one alternate setting of an interface
Desc(i, eps) == [number |-> i, endpoints |-> eps]

\* the configuration descriptors of the model: a sequence of interfaces,
\* each a non-empty sequence of alternate settings
StdConfig(n1, n2) ==
    << <<Desc(0, <<InAddr(0, 1), OutAddr(0)>>)>>,
       <<Desc(1, InEps(1, n1))>>,
       <<Desc(2, InEps(2, n2) \o <<OutAddr(2)>>)>> >>

\* a fourth interface the program never claims
ExtraConfig == StdConfig(1, 1) \o << <<Desc(3, <<InAddr(3, 1)>>)>> >>

\* the tablet interface has two alternate settings
AltConfig ==
    << <<Desc(0, <<InAddr(0, 1), OutAddr(0)>>)>>,
       <<Desc(1, InEps(1, 1))>>,
       <<Desc(2, <<InAddr(2, 1)>>), Desc(2, <<OutAddr(2), InAddr(2, 2)>>)>> >>

\* a device that declares no interface 2
ShortConfig ==
    << <<Desc(0, <<InAddr(0, 1), OutAddr(0)>>)>>,
       <<Desc(1, InEps(1, 1))>> >>

Configs ==
    {StdConfig(n, 1) : n \in 0..MaxEp} \cup {StdConfig(1, n) : n \in 0..MaxEp}
        \cup {ExtraConfig, AltConfig, ShortConfig}

Declared(cfg) == {cfg[k][1].number : k \in 1..Len(cfg)}

\* ----------------------------------------------------- topology (open_device)
InterfaceInfo(number, eps) ==
    [number |-> number,
     endpoints_in |-> SelectSeq(eps, IsIn),
     endpoints_out |-> SelectSeq(eps, IsOut)]

Insert(map, key, val) ==
    [x \in DOMAIN map \cup {key} |-> IF x = key THEN val ELSE map[x]]

RECURSIVE InsertDescriptors(_, _, _)
InsertDescriptors(map, number, descs) ==
    IF descs = <<>> THEN map
    ELSE InsertDescriptors(
             Insert(map, number, InterfaceInfo(number, Head(descs).endpoints)),
             number, Tail(descs))

RECURSIVE InsertInterfaces(_, _)
InsertInterfaces(map, ints) ==
    IF ints = <<>> THEN map
    ELSE InsertInterfaces(
             InsertDescriptors(map, Head(ints)[1].number, Head(ints)),
             Tail(ints))

EmptyMap == [x \in {} |-> 0]

\* faulty variant: only the first interface of the descriptor is recorded
Topology_FirstOnly(cfg) == InsertInterfaces(EmptyMap, SubSeq(cfg, 1, 1))

Topology(cfg) == InsertInterfaces(EmptyMap, cfg)

\* --------------------------------------------------------- device matching
DevKinds ==
    {[vid |-> VENDOR_ID, pid |-> PRODUCT_ID],
     [vid |-> VENDOR_ID, pid |-> OtherId],
     [vid |-> OtherId, pid |-> PRODUCT_ID]}

\* what the bus may hold: up to MaxDevices devices in enumeration order
DeviceLists == UNION {[1..n -> DevKinds] : n \in 0..MaxDevices}

\* faulty variant: one matching id is enough
Matches_Either(d, vid, pid) == d.vid = vid \/ d.pid = pid

Matches(d, vid, pid) == d.vid = vid /\ d.pid = pid

\* index of the first matching device, 0 when there is none
RECURSIVE FirstMatchFrom(_, _, _, _)
FirstMatchFrom(devs, k, vid, pid) ==
    IF k > Len(devs) THEN 0
    ELSE IF Matches(devs[k], vid, pid) THEN k
    ELSE FirstMatchFrom(devs, k + 1, vid, pid)

FirstMatch(devs, vid, pid) == FirstMatchFrom(devs, 1, vid, pid)

\* ------------------------------------------------------------------- state
VARIABLES
    pc,            \* position of main
    running,       \* the AtomicBool the ctrlc handler clears
    devices,       \* the bus: the devices context.devices() enumerates
    cfg,           \* active configuration descriptor of the tablet
    driverActive,  \* kernel: interface -> a kernel driver is bound to it
    claimed,       \* kernel: interfaces this handle has claimed
    usb_device,    \* the USBDevice main owns (open, device, interfaces)
    openKind,      \* what open_device returned: "Err", "None", "Some"
    idx,           \* claim_interfaces: position in the interface slice
    ops,           \* calls claim_interfaces has made, in order
    detached,      \* interfaces whose kernel driver claim_interfaces detached
    controlLog,    \* control transfers issued, in order
    watch,         \* polling loop: which of the two read_device calls
    epIdx,         \* read_device: position in interface.endpoints_in
    buffer,        \* read_device: the read buffer
    res,           \* read_device: result of the last read_interrupt
    attempt,       \* interrupt reads issued by the current read_device call
    outcome,       \* the read_device result main is matching on
    last,          \* kind of the last read_device result main matched on
    iterReads,     \* interrupt reads issued in the current loop iteration
    todo,          \* Drop: interface keys still to visit
    cur,           \* Drop: interface whose driver is being reattached
    dropQueried,   \* interfaces Drop has queried
    attachCount,   \* interface -> attach_kernel_driver calls issued by Drop
    teardownRuns,  \* number of times Drop::drop has started
    dropFailed,    \* a call of Drop has returned an error
    result         \* what main returned: "none", "ok" or "err"

vars ==
    <<pc, running, devices, cfg, driverActive, claimed, usb_device, openKind,
      idx, ops, detached, controlLog, watch, epIdx, buffer, res, attempt, outcome, last,
      iterReads, todo, cur, dropQueried, attachCount, teardownRuns,
      dropFailed, result>>

NoDevice == [open |-> FALSE, device |-> 0, interfaces |-> EmptyMap]

Ok(n) == [ok |-> TRUE, n |-> n, err |-> "none"]
Err(e) == [ok |-> FALSE, n |-> 0, err |-> e]

\* transport errors of an interrupt read
FatalErrors == {"Io", "NoDevice"}
ReadErrors == {"Timeout"} \cup FatalErrors

NoOutcome == [kind |-> "None", iface |-> 0, bytes |-> <<>>, err |-> "none"]

ZeroBuffer == [k \in 1..ReadSize |-> 0]

\* the buses of the main specification
Tablet == [vid |-> VENDOR_ID, pid |-> PRODUCT_ID]
MainBuses == {<<>>, <<[vid |-> VENDOR_ID, pid |-> OtherId], Tablet>>}

TypeOK ==
    /\ running \in BOOLEAN
    /\ devices \in DeviceLists
    /\ cfg \in Configs
    /\ driverActive \in [Ifaces -> BOOLEAN]
    /\ claimed \subseteq Ifaces
    /\ detached \subseteq Ifaces
    /\ result \in {"none", "ok", "err"}

InitCommon ==
    /\ pc = "start"
    /\ running = TRUE
    /\ cfg \in Configs
    /\ driverActive \in [Ifaces -> BOOLEAN]
    /\ \A i \in Ifaces : driverActive[i] => i \in Declared(cfg)
    /\ claimed = {}
    /\ usb_device = NoDevice
    /\ openKind = "none"
    /\ idx = 1
    /\ ops = <<>>
    /\ detached = {}
    /\ controlLog = <<>>
    /\ watch = 1
    /\ epIdx = 1
    /\ buffer = ZeroBuffer
    /\ res = Ok(0)
    /\ attempt = <<>>
    /\ outcome = NoOutcome
    /\ last = "None"
    /\ iterReads = 0
    /\ todo = {}
    /\ cur = 0
    /\ dropQueried = {}
    /\ attachCount = [i \in Ifaces |-> 0]
    /\ teardownRuns = 0
    /\ dropFailed = FALSE
    /\ result = "none"

Init == InitCommon /\ devices \in MainBuses

\* entry states for the device search: any bus of up to MaxDevices devices,
\* the tablet's descriptor with or without an input endpoint on interface 1,
\* a kernel driver bound to interface 1
InitBus ==
    /\ InitCommon
    /\ devices \in DeviceLists
    /\ cfg \in {StdConfig(0, 1), StdConfig(1, 1)}
    /\ driverActive = [i \in Ifaces |-> i = BUTTONS_INTERAFCE]

\* --------------------------------------------------------------- transport
\* kernel_driver_active(i): an error, or whether a kernel driver is bound
QueryResults(i) == {"err", IF driverActive[i] THEN "true" ELSE "false"}

\* claim_interface(i) can only succeed on an interface the device declares
ClaimResults(i) == IF i \in Declared(cfg) THEN {"ok", "err"} ELSE {"err"}

\* read_interrupt into a buffer of len bytes: the bytes transferred, or an error
ReadResults(len) == {Ok(n) : n \in 0..len} \cup {Err(e) : e \in ReadErrors}

\* bytes a failed transfer may have left in the buffer
PartialLens == {0, 1}

\* the device's payload on an endpoint: every byte is the endpoint's low byte
Fill(buf, n, ep) == [k \in 1..Len(buf) |-> IF k <= n THEN ep % 256 ELSE buf[k]]

\* --------------------------------------------------------------------- main
\* main returns r: its locals are dropped, usb_device (if any) runs Drop
\* faulty variant: the device is leaked (forgotten) when main returns
ScopeExit_Leak(dev) == "done"

ScopeExit(dev) == IF dev.open THEN "drop" ELSE "done"

Return(r) ==
    /\ result' = r
    /\ pc' = ScopeExit(usb_device)

\* ctrlc handler (runs in its own thread at any time once installed)
CtrlC ==
    /\ pc \notin {"start", "done"}
    /\ running
    /\ running' = FALSE
    /\ UNCHANGED <<pc, devices, cfg, driverActive, claimed, usb_device, openKind, idx,
                   ops, detached, controlLog, watch, epIdx, buffer, res,
                   attempt, outcome, last, iterReads, todo, cur, dropQueried,
                   attachCount, teardownRuns, dropFailed, result>>

\* set_handler, Context::new()?
Start ==
    /\ pc = "start"
    /\ \E ok \in BOOLEAN :
          IF ok THEN pc' = "open" /\ result' = result
          ELSE Return("err")
    /\ UNCHANGED <<running, devices, cfg, driverActive, claimed, usb_device, openKind,
                   idx, ops, detached, controlLog, watch, epIdx, buffer, res,
                   attempt, outcome, last, iterReads, todo, cur, dropQueried,
                   attachCount, teardownRuns, dropFailed>>

\* open_device: the faults of its transport calls
OpenFaults(devs, vid, pid) ==
    {"none", "devices"}
        \cup (IF Len(devs) > 0 THEN {"device_descriptor"} ELSE {})
        \cup (IF FirstMatch(devs, vid, pid) # 0 THEN {"open", "config"} ELSE {})

open_device(devs, conf, vid, pid, fault) ==
    IF fault # "none" THEN [kind |-> "Err", dev |-> NoDevice]
    ELSE IF FirstMatch(devs, vid, pid) = 0 THEN [kind |-> "None", dev |-> NoDevice]
    ELSE [kind |-> "Some",
          dev |-> [open |-> TRUE,
                   device |-> FirstMatch(devs, vid, pid),
                   interfaces |-> Topology(conf)]]

OpenDevice ==
    /\ pc = "open"
    /\ \E fault \in OpenFaults(devices, VENDOR_ID, PRODUCT_ID) :
          LET r == open_device(devices, cfg, VENDOR_ID, PRODUCT_ID, fault) IN
          /\ openKind' = r.kind
          /\ IF r.kind = "Some"
             THEN /\ usb_device' = r.dev
                  /\ pc' = "claim_query"
                  /\ result' = result
             ELSE /\ usb_device' = usb_device
                  /\ Return("err")
    /\ UNCHANGED <<running, devices, cfg, driverActive, claimed, idx, ops,
                   detached, controlLog, watch, epIdx, buffer, res, attempt,
                   outcome, last, iterReads, todo, cur, dropQueried, attachCount,
                   teardownRuns, dropFailed>>

\* ---------------------------------------------------------- claim_interfaces
\* faulty variant: the slice in another order
ClaimSeq_Reversed == <<TABLET_INTERFACE, BUTTONS_INTERAFCE, MASS_STORAGE>>

ClaimSeq == <<MASS_STORAGE, BUTTONS_INTERAFCE, TABLET_INTERFACE>>

Op(op, i, r) == [op |-> op, iface |-> i, r |-> r]

\* faulty variant: the result of a transport call is not looked at
Propagates_Never(r) == FALSE

\* the ? after each transport call of claim_interfaces (and main's ? on its
\* result): an error ends the function
Propagates(r) == r = "err"

\* handle.kernel_driver_active(*num)?
ClaimQuery ==
    /\ pc = "claim_query"
    /\ \E r \in QueryResults(ClaimSeq[idx]) :
          /\ ops' = Append(ops, Op("query", ClaimSeq[idx], r))
          /\ IF Propagates(r) THEN Return("err")
             ELSE /\ pc' = IF r = "true" THEN "claim_detach" ELSE "claim_claim"
                  /\ result' = result
    /\ UNCHANGED <<running, devices, cfg, driverActive, claimed, usb_device, openKind,
                   idx, detached, controlLog, watch, epIdx, buffer, res,
                   attempt, outcome, last, iterReads, todo, cur, dropQueried,
                   attachCount, teardownRuns, dropFailed>>

\* handle.detach_kernel_driver(*num)?
ClaimDetach ==
    /\ pc = "claim_detach"
    /\ \E r \in {"ok", "err"} :
          /\ ops' = Append(ops, Op("detach", ClaimSeq[idx], r))
          /\ IF Propagates(r)
             THEN /\ Return("err")
                  /\ UNCHANGED <<driverActive, detached>>
             ELSE /\ driverActive' = [driverActive EXCEPT ![ClaimSeq[idx]] = FALSE]
                  /\ detached' = detached \cup {ClaimSeq[idx]}
                  /\ pc' = "claim_claim"
                  /\ result' = result
    /\ UNCHANGED <<running, devices, cfg, claimed, usb_device, openKind, idx,
                   controlLog, watch, epIdx, buffer, res, attempt, outcome, last,
                   iterReads, todo, cur, dropQueried, attachCount,
                   teardownRuns, dropFailed>>

\* handle.claim_interface(*num)?, then the next interface or Ok(())
ClaimClaim ==
    /\ pc = "claim_claim"
    /\ \E r \in ClaimResults(ClaimSeq[idx]) :
          /\ ops' = Append(ops, Op("claim", ClaimSeq[idx], r))
          /\ IF Propagates(r)
             THEN /\ Return("err")
                  /\ UNCHANGED <<claimed, idx>>
             ELSE /\ claimed' = claimed \cup {ClaimSeq[idx]}
                  /\ result' = result
                  /\ IF idx < Len(ClaimSeq)
                     THEN idx' = idx + 1 /\ pc' = "claim_query"
                     ELSE idx' = idx /\ pc' = "handshake"
    /\ UNCHANGED <<running, devices, cfg, driverActive, usb_device, openKind, detached,
                   controlLog, watch, epIdx, buffer, res, attempt, outcome, last,
                   iterReads, todo, cur, dropQueried, attachCount,
                   teardownRuns, dropFailed>>

\* ---------------------------------------------------------------- handshake
\* faulty variant: the fields of the other firmware variant
magic_packet_VariantA ==
    [request_type |-> 33, request |-> 9, value |-> 770, interface |-> 2,
     payload |-> <<2, 2, 181, 2, 0, 0, 0, 0>>, timeout_ms |-> 1000]

magic_packet ==
    [request_type |-> 33, request |-> 9, value |-> 514, interface |-> 2,
     payload |-> <<2, 1>>, timeout_ms |-> 1000]

\* the control transfers send_to_device issues for a message
send_to_device(message, r) == <<[message |-> message, r |-> r]>>

\* faulty variant: send_to_device(..)? propagates a failed handshake
HandshakeNext_Strict(r) ==
    IF r = "err" THEN [pc |-> "drop", result |-> "err"]
    ELSE [pc |-> "loop_check", result |-> "none"]

\* let _ = send_to_device(..): where main goes on a result of the handshake
HandshakeNext(r) == [pc |-> "loop_check", result |-> "none"]

Handshake ==
    /\ pc = "handshake"
    /\ \E r \in {"ok", "err"} :
          /\ controlLog' = controlLog \o send_to_device(magic_packet, r)
          /\ IF HandshakeNext(r).result = "none"
             THEN pc' = HandshakeNext(r).pc /\ result' = result
             ELSE Return(HandshakeNext(r).result)
    /\ UNCHANGED <<running, devices, cfg, driverActive, claimed, usb_device, openKind,
                   idx, ops, detached, watch, epIdx, buffer, res, attempt,
                   outcome, last, iterReads, todo, cur, dropQueried, attachCount,
                   teardownRuns, dropFailed>>

\* ------------------------------------------------------------- polling loop
\* the two read_device calls of one iteration, in order
Watched == <<BUTTONS_INTERAFCE, TABLET_INTERFACE>>

\* usb_device.interfaces.get(&..).unwrap()
HasInfo(w) == Watched[w] \in DOMAIN usb_device.interfaces
Info(w) == usb_device.interfaces[Watched[w]]

\* faulty variant: the loop never looks at the flag
LoopCond_Always(flag) == TRUE

\* while running.load(..)
LoopCond(flag) == flag

\* the value main returns after the loop
LoopResult == "ok"

\* main's match on what read_device returned
Classify(r) ==
    IF r.ok THEN "Data"
    ELSE IF r.err = "Timeout" THEN "Timeout"
    ELSE "Fatal"

\* faulty variants: no arm breaks; every error arm breaks
Breaks_Never(kind) == FALSE
Breaks_OnAnyError(kind) == kind # "Data"

\* the arms of the match: break on a fatal error, otherwise go on
Breaks(kind) == kind = "Fatal"

\* faulty variant: a failed read is retried on the same endpoint
NextEp_Retry(k) == k

\* read_device: the for loop moves on to the next input endpoint
NextEp(k) == k + 1

\* faulty variant: the loop goes on after a read that succeeded
EarlyReturn_Never(r) == FALSE

\* read_device: return at once on a read that succeeded
EarlyReturn(r) == r.ok

\* faulty variant: the whole buffer is returned, not buffer[..bytes_read]
Returned_WholeBuffer(number, r, buf) ==
    [kind |-> Classify(r),
     iface |-> IF r.ok THEN number ELSE 0,
     bytes |-> IF r.ok THEN buf ELSE <<>>,
     err |-> r.err]

\* read_device: the value returned for the interface, from the last result
Returned(number, r, buf) ==
    [kind |-> Classify(r),
     iface |-> IF r.ok THEN number ELSE 0,
     bytes |-> IF r.ok THEN SubSeq(buf, 1, r.n) ELSE <<>>,
     err |-> r.err]

ReadRec(number, ep, len, r) ==
    [iface |-> number, endpoint |-> ep, size |-> len, timeout |-> ReadTimeout,
     res |-> r]

\* entry of a read_device call: vec![0; bytes], res = Ok(0)
BeginAttempt(w) ==
    /\ watch' = w
    /\ epIdx' = 1
    /\ buffer' = ZeroBuffer
    /\ res' = Ok(0)
    /\ attempt' = <<>>

WhileCheck ==
    /\ pc = "loop_check"
    /\ IF LoopCond(running)
       THEN /\ HasInfo(1)
            /\ pc' = "read"
            /\ result' = result
            /\ iterReads' = 0
            /\ BeginAttempt(1)
       ELSE /\ Return(LoopResult)
            /\ UNCHANGED <<watch, epIdx, buffer, res, attempt, iterReads>>
    /\ UNCHANGED <<running, devices, cfg, driverActive, claimed, usb_device, openKind,
                   idx, ops, detached, controlLog, outcome, last, todo, cur,
                   dropQueried, attachCount, teardownRuns, dropFailed>>

\* one pass of the loop over interface.endpoints_in: a read_interrupt, and
\* the return of read_device when the read succeeded or was the last one
ReadInterrupt ==
    /\ pc = "read"
    /\ epIdx <= Len(Info(watch).endpoints_in)
    /\ LET info == Info(watch)
           ep == info.endpoints_in[epIdx]
       IN  \E r \in ReadResults(Len(buffer)), m \in PartialLens :
              /\ r.ok => m = 0
              /\ buffer' = Fill(buffer, IF r.ok THEN r.n ELSE m, ep)
              /\ res' = r
              /\ attempt' = Append(attempt, ReadRec(info.number, ep, Len(buffer), r))
              /\ iterReads' = iterReads + 1
              /\ IF EarlyReturn(r) \/ epIdx = Len(info.endpoints_in)
                 THEN /\ outcome' = Returned(info.number, r, buffer')
                      /\ pc' = "match"
                      /\ epIdx' = epIdx
                 ELSE /\ outcome' = outcome
                      /\ pc' = pc
                      /\ epIdx' = NextEp(epIdx)
    /\ UNCHANGED <<running, devices, cfg, driverActive, claimed, usb_device, openKind,
                   idx, ops, detached, controlLog, watch, last, todo, cur,
                   dropQueried, attachCount, teardownRuns, dropFailed, result>>

\* read_device on an interface without input endpoints: no read is issued
ReadNoEndpoint ==
    /\ pc = "read"
    /\ Len(Info(watch).endpoints_in) = 0
    /\ outcome' = Returned(Info(watch).number, res, buffer)
    /\ pc' = "match"
    /\ UNCHANGED <<running, devices, cfg, driverActive, claimed, usb_device, openKind,
                   idx, ops, detached, controlLog, watch, epIdx, buffer, res,
                   attempt, last, iterReads, todo, cur, dropQueried,
                   attachCount, teardownRuns, dropFailed, result>>

\* the match on read_device's result, then the next read_device call, the
\* next iteration, or the break
MainMatch ==
    /\ pc = "match"
    /\ last' = outcome.kind
    /\ outcome' = NoOutcome
    /\ IF Breaks(outcome.kind)
       THEN /\ Return(LoopResult)
            /\ BeginAttempt(watch)
       ELSE /\ result' = result
            /\ IF watch < Len(Watched)
               THEN /\ HasInfo(watch + 1)
                    /\ pc' = "read"
                    /\ BeginAttempt(watch + 1)
               ELSE /\ pc' = "loop_check"
                    /\ BeginAttempt(1)
    /\ UNCHANGED <<running, devices, cfg, driverActive, claimed, usb_device, openKind,
                   idx, ops, detached, controlLog, iterReads, todo, cur,
                   dropQueried, attachCount, teardownRuns, dropFailed>>

\* ------------------------------------------------------ Drop for USBDevice
\* self.interfaces.keys()
Keys(dev) == DOMAIN dev.interfaces

\* if let Ok(res) = ..kernel_driver_active(i) { if res { attach } }
ShouldAttach(r) == r = "true"

\* faulty variant: an error ends the loop over the keys
Remaining_StopOnError(keys, i, r) == IF r = "err" THEN {} ELSE keys \ {i}

\* the for loop goes on to the other keys whatever the calls returned
Remaining(keys, i, r) == keys \ {i}

DropBegin ==
    /\ pc = "drop"
    /\ teardownRuns' = teardownRuns + 1
    /\ todo' = Keys(usb_device)
    /\ pc' = "drop_loop"
    /\ UNCHANGED <<running, devices, cfg, driverActive, claimed, usb_device, openKind,
                   idx, ops, detached, controlLog, watch, epIdx, buffer, res,
                   attempt, outcome, last, iterReads, cur, dropQueried, attachCount,
                   dropFailed, result>>

\* the next key, in the map's (arbitrary) order
DropQuery ==
    /\ pc = "drop_loop"
    /\ \E i \in todo : \E r \in QueryResults(i) :
          /\ dropQueried' = dropQueried \cup {i}
          /\ dropFailed' = (dropFailed \/ r = "err")
          /\ IF ShouldAttach(r)
             THEN cur' = i /\ pc' = "drop_attach" /\ todo' = todo
             ELSE cur' = cur /\ pc' = pc /\ todo' = Remaining(todo, i, r)
    /\ UNCHANGED <<running, devices, cfg, driverActive, claimed, usb_device, openKind,
                   idx, ops, detached, controlLog, watch, epIdx, buffer, res,
                   attempt, outcome, last, iterReads, attachCount, teardownRuns,
                   result>>

\* let _ = self.handle.attach_kernel_driver(i)
DropAttach ==
    /\ pc = "drop_attach"
    /\ \E r \in {"ok", "err"} :
          /\ driverActive' = IF r = "ok" THEN [driverActive EXCEPT ![cur] = TRUE]
                             ELSE driverActive
          /\ dropFailed' = (dropFailed \/ r = "err")
          /\ todo' = Remaining(todo, cur, r)
    /\ attachCount' = [attachCount EXCEPT ![cur] = @ + 1]
    /\ pc' = "drop_loop"
    /\ UNCHANGED <<running, devices, cfg, claimed, usb_device, openKind, idx, ops,
                   detached, controlLog, watch, epIdx, buffer, res, attempt,
                   outcome, last, iterReads, cur, dropQueried, teardownRuns,
                   result>>

DropEnd ==
    /\ pc = "drop_loop"
    /\ todo = {}
    /\ pc' = "done"
    /\ UNCHANGED <<running, devices, cfg, driverActive, claimed, usb_device, openKind,
                   idx, ops, detached, controlLog, watch, epIdx, buffer, res,
                   attempt, outcome, last, iterReads, todo, cur, dropQueried,
                   attachCount, teardownRuns, dropFailed, result>>

\* ------------------------------------------------------------ specification
Main ==
    \/ Start
    \/ OpenDevice
    \/ ClaimQuery
    \/ ClaimDetach
    \/ ClaimClaim
    \/ Handshake
    \/ WhileCheck
    \/ ReadInterrupt
    \/ ReadNoEndpoint
    \/ MainMatch
    \/ DropBegin
    \/ DropQuery
    \/ DropAttach
    \/ DropEnd

Next == Main \/ CtrlC

Spec == Init /\ [][Next]_vars

SpecBus == InitBus /\ [][Next]_vars

\* every call into the transport returns, and main is scheduled
FairSpec == Spec /\ WF_vars(Main)

\* ------------------------------------------------------------------ helpers
\* this step issues an interrupt read
ReadIssued == Len(attempt') = Len(attempt) + 1

\* interfaces on which Drop issued attach_kernel_driver
Reattached == {i \in Ifaces : attachCount[i] > 0}

Range(seq) == {seq[k] : k \in 1..Len(seq)}

LoopPcs == {"loop_check", "read", "match"}
DropPcs == {"drop", "drop_loop", "drop_attach"}

IsFatalRead(rec) == ~rec.res.ok /\ rec.res.err # "Timeout"
IsTimeoutRead(rec) == ~rec.res.ok /\ rec.res.err = "Timeout"

\* a read_device call has returned a fatal error
FatalSeen == outcome.kind = "Fatal" \/ last = "Fatal"

\* no read_device call has been made so far
NoReadYet == attempt = <<>> /\ outcome = NoOutcome /\ last = "None"

HandshakeFailed == controlLog # <<>> /\ controlLog[1].r = "err"

\* the run got as far as the polling loop
ReachedPolling == pc \in LoopPcs \/ (pc \in DropPcs \cup {"done"} /\ result = "ok")

\* ------------------------------------------------------------------- claims

\* C1: after teardown, the interfaces on which a reattach was issued are
\* exactly the interfaces whose kernel driver was detached at claim time,
\* and no interface is reattached more than once.
C1_ReattachExactlyDetached ==
    (pc = "done" /\ usb_device.open) =>
        /\ Reattached = detached
        /\ \A i \in Ifaces : attachCount[i] <= 1

\* C2: once the device is opened teardown runs exactly once on every exit
\* path of main, and after teardown has started no claim-phase call, control
\* transfer or interrupt read is issued.
C2_TeardownExactlyOnce ==
    /\ [](teardownRuns <= 1)
    /\ []((pc = "done" /\ usb_device.open) => teardownRuns = 1)
    /\ [](~usb_device.open => teardownRuns = 0)
    /\ [][teardownRuns >= 1 =>
            (ops' = ops /\ claimed' = claimed /\ controlLog' = controlLog
             /\ ~ReadIssued)]_vars

\* C2 witness: the loop ended on a fatal read and teardown has run once
C2_Witness ==
    pc = "done" /\ usb_device.open /\ teardownRuns = 1 /\ last = "Fatal"

\* C3: teardown neither queries nor attaches a driver on an interface that
\* claim did not claim.
C3_TeardownOnlyClaimed ==
    /\ dropQueried \subseteq claimed
    /\ Reattached \subseteq claimed

\* C4: once a read_device call has returned a fatal error no further
\* interrupt read is issued (a fatal error on interface 1 leaves interface 2
\* unpolled), and teardown still executes afterwards.
C4_FatalStopsPolling ==
    /\ [][FatalSeen => ~ReadIssued]_vars
    /\ [][(pc = "match" /\ outcome.kind = "Fatal" /\ pc' # pc) => pc' = "drop"]_vars
    /\ FatalSeen ~> (pc = "done" /\ teardownRuns = 1)

\* C4 witness: a fatal error on interface 1 ended the run; no read on
\* interface 2 in that iteration, teardown ran
C4_Witness ==
    /\ pc = "done" /\ last = "Fatal" /\ watch = 1
    /\ iterReads = 1 /\ teardownRuns = 1

\* C5: a run whose polling loop was stopped by a fatal read error ends with
\* a failure result.
C5_FatalPropagated ==
    (pc = "done" /\ last = "Fatal") => result = "err"

\* C6: when read_device returns, if any interrupt read of the call failed
\* with an error other than timeout, the call's result is Fatal.
C6_EveryFatalReadIsFatal ==
    (pc = "match" /\ \E k \in 1..Len(attempt) : IsFatalRead(attempt[k]))
        => outcome.kind = "Fatal"

\* C7: when all input endpoints of an interface time out the result is
\* Timeout; a Timeout neither ends the loop nor becomes an error, the next
\* watched interface is polled in the same iteration, and every read uses
\* the same size and timeout.
C7_TimeoutAbsorbed ==
    /\ []((pc = "match" /\ attempt # <<>>
             /\ \A k \in 1..Len(attempt) : IsTimeoutRead(attempt[k]))
            => outcome.kind = "Timeout")
    /\ [][(pc = "match" /\ outcome.kind = "Timeout" /\ pc' # pc) =>
            /\ result' = "none"
            /\ IF watch = 1 THEN pc' = "read" /\ watch' = 2 /\ iterReads' = iterReads
               ELSE pc' = "loop_check"]_vars
    /\ [](\A k \in 1..Len(attempt) :
             attempt[k].size = 8 /\ attempt[k].timeout = 10)

\* C7 witness: both input endpoints of interface 1 timed out and
\* read_device has returned Timeout to the loop
C7_Witness ==
    /\ pc = "match" /\ watch = 1 /\ Len(attempt) = 2
    /\ \A k \in 1..Len(attempt) : IsTimeoutRead(attempt[k])
    /\ outcome.kind = "Timeout" /\ result = "none"

\* C8: no iteration starts once the flag is cleared, the loop then returns
\* normally, and the run reaches the end of teardown.
C8_CancelObserved ==
    /\ [][(pc = "loop_check" /\ pc' = "read") => running]_vars
    /\ [][(pc = "loop_check" /\ ~running /\ pc' # pc) =>
            (pc' = "drop" /\ result' = "ok")]_vars
    /\ (~running /\ pc \in LoopPcs) ~> (pc = "done" /\ teardownRuns = 1)

\* C8 witness: the flag was cleared while the loop ran; the run ended
\* normally after teardown
C8_Witness ==
    /\ pc = "done" /\ ~running /\ result = "ok" /\ teardownRuns = 1
    /\ last \in {"Data", "Timeout"}

\* C9: a run that reaches polling has issued exactly one control transfer,
\* with the fixed fields, after all of 0, 1, 2 were claimed and before any
\* interrupt read.
C9_OneHandshake ==
    /\ [](Len(controlLog) <= 1)
    /\ [](ReachedPolling =>
            /\ Len(controlLog) = 1
            /\ controlLog[1].message.request_type = 33
            /\ controlLog[1].message.request = 9
            /\ controlLog[1].message.value = 514
            /\ controlLog[1].message.interface = 2
            /\ controlLog[1].message.payload = <<2, 1>>)
    /\ [][controlLog' # controlLog =>
            ({0, 1, 2} \subseteq claimed /\ NoReadYet)]_vars
    /\ [][ReadIssued => Len(controlLog) = 1]_vars

\* C9 witness: an interrupt read has been issued
C9_Witness == pc = "read" /\ Len(attempt) = 1 /\ Len(controlLog) = 1

\* C10 (as claimed): after a failed handshake no interrupt read is issued
\* and the run ends with an error.
C10_HandshakeFailureFatal ==
    HandshakeFailed =>
        /\ NoReadYet
        /\ pc = "done" => result = "err"

\* C10 (amended): the result of the handshake is discarded: after a failed
\* handshake main goes on to the polling loop as after a successful one, and
\* the run ends with a success result once teardown has run.
C10_HandshakeFailureIgnored ==
    /\ [][(pc = "handshake" /\ pc' # pc) =>
            (pc' = "loop_check" /\ result' = "none")]_vars
    /\ []((HandshakeFailed /\ pc = "done") => (result = "ok" /\ teardownRuns = 1))

\* C10 witness: the handshake failed, data was read, the run ended normally
C10_Witness ==
    HandshakeFailed /\ pc = "done" /\ result = "ok" /\ last = "Data"


\* a transport call of claim_interfaces has failed
ClaimFailed == ops # <<>> /\ ops[Len(ops)].r = "err"

\* position of an interface in the slice passed to claim_interfaces
PosOf(i) == CHOOSE k \in 1..3 : <<0, 1, 2>>[k] = i

\* C11: when the driver query, the detach or the claim fails for an
\* interface, claim_interfaces makes no further call (no later interface is
\* queried, detached or claimed), main ends with an error, and neither the
\* handshake nor any read is ever issued.
C11_ClaimFailureAborts ==
    /\ [](\A k \in 1..Len(ops) : ops[k].r = "err" => k = Len(ops))
    /\ [](ClaimFailed =>
            /\ pc \in DropPcs \cup {"done"}
            /\ result = "err"
            /\ controlLog = <<>>
            /\ NoReadYet
            /\ \A i \in claimed \cup detached : PosOf(i) <= PosOf(ops[Len(ops)].iface))
    /\ [][ClaimFailed =>
            (ops' = ops /\ claimed' = claimed /\ detached' = detached
             /\ controlLog' = controlLog /\ ~ReadIssued)]_vars

\* C11 witness: claim_interface(1) failed after interface 0 was claimed, and
\* the run has ended
C11_Witness ==
    /\ ClaimFailed /\ pc = "done"
    /\ ops[Len(ops)].op = "claim" /\ ops[Len(ops)].iface = 1
    /\ claimed = {0}


\* the endpoints the descriptor declares under interface i, over all of
\* its alternate settings
DeclaredEndpoints(conf, i) ==
    UNION {UNION {Range(conf[k][a].endpoints) : a \in 1..Len(conf[k])} :
             k \in {x \in 1..Len(conf) : conf[x][1].number = i}}

\* C12: the topology map has an entry for every declared interface, and
\* every endpoint declared under the interface is in exactly one of
\* endpoints_in / endpoints_out, the one of its direction.
C12_TopologyComplete ==
    usb_device.open =>
        \A i \in Declared(cfg) :
            /\ i \in DOMAIN usb_device.interfaces
            /\ \A e \in DeclaredEndpoints(cfg, i) :
                  LET info == usb_device.interfaces[i] IN
                  /\ IsIn(e) <=> e \in Range(info.endpoints_in)
                  /\ IsOut(e) <=> e \in Range(info.endpoints_out)


\* input endpoints of the watched interfaces, in total
TotalIn ==
    (IF HasInfo(1) THEN Len(Info(1).endpoints_in) ELSE 0)
        + (IF HasInfo(2) THEN Len(Info(2).endpoints_in) ELSE 0)

TabletAttached ==
    \E k \in 1..Len(devices) : devices[k].vid = 2290 /\ devices[k].pid = 26641

\* no device opened, no interface touched, no transfer issued
NothingDone ==
    /\ ~usb_device.open /\ claimed = {} /\ detached = {} /\ ops = <<>>
    /\ controlLog = <<>> /\ NoReadYet /\ teardownRuns = 0

\* C14: when no transport call of open_device fails, it returns the first
\* device in enumeration order whose vendor and product id both match if
\* there is one, and not-found otherwise; not-found is only ever reported
\* when no device matches, and then nothing is opened, claimed or sent.
C14_FirstMatchOrNotFound ==
    /\ openKind = "Some" =>
          /\ usb_device.open
          /\ usb_device.device \in 1..Len(devices)
          /\ devices[usb_device.device].vid = 2290
          /\ devices[usb_device.device].pid = 26641
          /\ \A j \in 1..(usb_device.device - 1) :
                ~(devices[j].vid = 2290 /\ devices[j].pid = 26641)
    /\ openKind = "None" => (~TabletAttached /\ NothingDone /\ result = "err")
    /\ openKind \in {"Some", "None"} => (openKind = "Some" <=> TabletAttached)
    /\ openKind = "none" => NothingDone

\* C14 witness: the tablet is second on the bus, after a device with the
\* same vendor id, and was opened
C14_Witness ==
    /\ openKind = "Some" /\ usb_device.device = 2
    /\ devices[1].vid = 2290

\* C14 witness of the other case: no matching device (one has the vendor
\* id, one the product id), not-found reported, the run ended
C14_WitnessNotFound ==
    /\ openKind = "None" /\ pc = "done" /\ Len(devices) = 2
    /\ devices[1].vid = 2290 /\ devices[2].pid = 26641


\* the queries among the first k calls of claim_interfaces
QueriesUpTo(k) == Cardinality({j \in 1..k : ops[j].op = "query"})

\* C15: the calls of claim_interfaces follow the order 0, 1, 2: for each
\* interface the query comes first, a detach follows exactly when the query
\* answered true, the claim comes after a query that answered false or a
\* detach that succeeded, and the next interface is queried only after the
\* claim of the one before succeeded.
C15_ClaimOrder ==
    \A k \in 1..Len(ops) :
        /\ ops[k].iface = <<0, 1, 2>>[QueriesUpTo(k)]
        /\ ops[k].op = "query" =>
              (k = 1 \/ (ops[k - 1].op = "claim" /\ ops[k - 1].r = "ok"))
        /\ ops[k].op = "detach" =>
              (k > 1 /\ ops[k - 1].op = "query" /\ ops[k - 1].r = "true")
        /\ ops[k].op = "claim" =>
              /\ k > 1
              /\ \/ ops[k - 1].op = "query" /\ ops[k - 1].r = "false"
                 \/ ops[k - 1].op = "detach" /\ ops[k - 1].r = "ok"
        /\ (ops[k].op = "claim" /\ ops[k].r = "ok") => ops[k].iface \in claimed

\* C15 witness: all three interfaces were claimed, interface 1 after its
\* driver was detached, the others without a detach
C15_Witness ==
    /\ pc = "handshake" /\ Len(ops) = 7 /\ detached = {1}
    /\ ops[4].op = "detach" /\ claimed = {0, 1, 2}


\* n bytes of the payload of endpoint ep
Payload(ep, n) == [k \in 1..n |-> ep % 256]

\* C16: a read_device call reads the interface's input endpoints in their
\* declared order and returns on the first read that succeeds: no read
\* follows a successful one in the same call, and the result carries the
\* bytes of that endpoint only.
C16_FirstDataWins ==
    pc \in {"read", "match"} =>
        /\ \A k \in 1..Len(attempt) :
              /\ attempt[k].endpoint = Info(watch).endpoints_in[k]
              /\ attempt[k].res.ok => k = Len(attempt)
        /\ (attempt # <<>> /\ attempt[Len(attempt)].res.ok) =>
              /\ pc = "match"
              /\ outcome.kind = "Data"
              /\ outcome.bytes = Payload(attempt[Len(attempt)].endpoint,
                                         attempt[Len(attempt)].res.n)

\* C16 witness: the first of two input endpoints delivered data and the
\* call returned without reading the second
C16_Witness ==
    /\ pc = "match" /\ Len(Info(watch).endpoints_in) = 2
    /\ Len(attempt) = 1 /\ attempt[1].res.ok /\ attempt[1].res.n = 3
    /\ outcome.kind = "Data" /\ Len(outcome.bytes) = 3


\* C17: teardown swallows the failures of its calls: whatever the driver
\* query or the attach return, every key of the map is visited, main's
\* result is left as it was, and Drop runs to its end.
C17_TeardownNeverStops ==
    /\ [](pc \in {"drop_loop", "drop_attach"} =>
            todo \cup dropQueried = DOMAIN usb_device.interfaces)
    /\ []((pc = "done" /\ usb_device.open) =>
            dropQueried = DOMAIN usb_device.interfaces)
    /\ [][(pc \in DropPcs) => result' = result]_vars
    /\ (pc \in DropPcs) ~> (pc = "done")

\* C17 witness: a call of Drop failed on interface 0 or 1 and Drop still
\* went through all three interfaces
C17_Witness ==
    /\ pc = "done" /\ dropFailed /\ dropQueried = {0, 1, 2}
    /\ teardownRuns = 1 /\ result = "ok"


\* C18: a Data result carries the number of the interface that was read
\* and exactly the bytes the successful read transferred, at most 8.
C18_DataIsWhatWasRead ==
    (pc = "match" /\ outcome.kind = "Data") =>
        /\ outcome.iface = <<1, 2>>[watch]
        /\ Len(outcome.bytes) <= 8
        /\ IF attempt = <<>> THEN outcome.bytes = <<>>
           ELSE /\ attempt[Len(attempt)].res.ok
                /\ attempt[Len(attempt)].iface = outcome.iface
                /\ outcome.bytes = Payload(attempt[Len(attempt)].endpoint,
                                           attempt[Len(attempt)].res.n)

\* C18 witness: the first endpoint of interface 2 failed, the second
\* transferred two bytes, which are the result
C18_Witness ==
    /\ pc = "match" /\ watch = 2 /\ outcome.kind = "Data"
    /\ Len(attempt) = 2 /\ attempt[2].res.n = 2 /\ Len(outcome.bytes) = 2
    /\ outcome.bytes[1] = attempt[2].endpoint % 256


\* C19: a read_device call returns Data only if one of its interrupt
\* reads succeeded.
C19_DataNeedsARead ==
    (pc = "match" /\ outcome.kind = "Data") =>
        \E k \in 1..Len(attempt) : attempt[k].res.ok

\* C20: whenever main is in the polling loop the topology map has entries
\* for interfaces 1 and 2, so neither lookup of the loop body can fail.
C20_WatchedInterfacesKnown ==
    pc \in LoopPcs =>
        /\ 1 \in DOMAIN usb_device.interfaces
        /\ 2 \in DOMAIN usb_device.interfaces
        /\ {0, 1, 2} \subseteq claimed

\* C20 witness: the second lookup of an iteration was made and the read of
\* interface 2 is under way
C20_Witness ==
    /\ pc = "read" /\ watch = 2 /\ Len(attempt) = 1
    /\ attempt[1].iface = 2 /\ claimed = {0, 1, 2}

====
